---- MODULE Spec2Model ----
(***************************************************************************)
(* Model of mdb/shards.go (keyhole): the builders that turn the shard list *)
(* of a sharded cluster and a parsed connection string into connection     *)
(* URIs, GetAllShardURIs (one URI per shard), GetAllServerURIs (one URI    *)
(* per member, after hostname reconciliation) and GetQueryParams.          *)
(*                                                                         *)
(* A Go string is modelled as a sequence of one-character strings, so that *)
(* strings.Index, slicing, Split, Replacer and url.QueryEscape are         *)
(* computed character by character as the code computes them.  Offsets in  *)
(* the string helpers are 0-based, as in Go.                               *)
(***************************************************************************)
EXTENDS Integers, Sequences, FiniteSets, TLC

VARIABLES shards, cs, call, out

vars == <<shards, cs, call, out>>

(***************************************************************************)
(* Go's strings package                                                    *)
(***************************************************************************)

\* sub occurs in s at 0-based offset i
MatchAt(s, sub, i) ==
    /\ i >= 0
    /\ i + Len(sub) <= Len(s)
    /\ \A k \in 1..Len(sub) : s[i + k] = sub[k]

\* strings.Index: offset of the first occurrence of sub in s, or -1
Index(s, sub) ==
    LET hits == { i \in 0..(Len(s) - Len(sub)) : MatchAt(s, sub, i) }
    IN  IF hits = {} THEN -1 ELSE CHOOSE i \in hits : \A j \in hits : i <= j

\* strings.Contains
Contains(s, sub) == Index(s, sub) >= 0

\* strings.HasPrefix
HasPrefix(s, prefix) == MatchAt(s, prefix, 0)

\* s[:j]
SliceTo(s, j) == SubSeq(s, 1, j)

\* s[i:]
SliceFrom(s, i) == SubSeq(s, i + 1, Len(s))

\* s[i:j] is in range (Go panics otherwise)
SliceInRange(s, i, j) == 0 <= i /\ i <= j /\ j <= Len(s)

RECURSIVE Split(_, _)
\* strings.Split for a non-empty separator
Split(s, sep) ==
    LET i == Index(s, sep)
    IN  IF i < 0 THEN <<s>>
        ELSE <<SliceTo(s, i)>> \o Split(SliceFrom(s, i + Len(sep)), sep)

RECURSIVE Join(_, _)
\* strings.Join
Join(parts, sep) ==
    IF Len(parts) = 0 THEN <<>>
    ELSE IF Len(parts) = 1 THEN parts[1]
    ELSE parts[1] \o sep \o Join(Tail(parts), sep)

RECURSIVE Replace(_, _)
\* strings.NewReplacer(old1, "", old2, "", ...).Replace(s): scanning left to
\* right, the first old string (in argument order) matching at the current
\* offset is removed; matches do not overlap
Replace(s, olds) ==
    IF Len(s) = 0 THEN <<>>
    ELSE IF \E o \in 1..Len(olds) : HasPrefix(s, olds[o])
    THEN LET o == CHOOSE p \in 1..Len(olds) :
                      /\ HasPrefix(s, olds[p])
                      /\ \A q \in 1..(p - 1) : ~HasPrefix(s, olds[q])
         IN  Replace(SliceFrom(s, Len(olds[o])), olds)
    ELSE <<Head(s)>> \o Replace(Tail(s), olds)

RECURSIVE Count(_, _)
\* strings.Count for a non-empty sub: non-overlapping occurrences
Count(s, sub) ==
    LET i == Index(s, sub)
    IN  IF i < 0 THEN 0 ELSE 1 + Count(SliceFrom(s, i + Len(sub)), sub)

RECURSIVE Itoa(_)
\* fmt's %v of an int
Itoa(n) ==
    LET digit(d) == <<"0", "1", "2", "3", "4", "5", "6", "7", "8", "9">>[d + 1]
    IN  IF n < 0 THEN <<"-">> \o Itoa(0 - n)
        ELSE IF n < 10 THEN <<digit(n)>>
        ELSE Itoa(n \div 10) \o <<digit(n % 10)>>

(***************************************************************************)
(* net/url QueryEscape                                                     *)
(***************************************************************************)

Unreserved ==
    { "a", "b", "c", "d", "e", "f", "g", "h", "i", "j", "k", "l", "m",
      "n", "o", "p", "q", "r", "s", "t", "u", "v", "w", "x", "y", "z",
      "A", "B", "C", "D", "E", "F", "G", "H", "I", "J", "K", "L", "M",
      "N", "O", "P", "Q", "R", "S", "T", "U", "V", "W", "X", "Y", "Z",
      "0", "1", "2", "3", "4", "5", "6", "7", "8", "9",
      "-", "_", ".", "~" }

\* the two hexadecimal digits of the ASCII code of a reserved character
HexOf(c) ==
    CASE c = " " -> <<"2","0">>
      [] c = "!" -> <<"2","1">>
      [] c = "#" -> <<"2","3">>
      [] c = "$" -> <<"2","4">>
      [] c = "%" -> <<"2","5">>
      [] c = "&" -> <<"2","6">>
      [] c = "+" -> <<"2","B">>
      [] c = "," -> <<"2","C">>
      [] c = "/" -> <<"2","F">>
      [] c = ":" -> <<"3","A">>
      [] c = "=" -> <<"3","D">>
      [] c = "?" -> <<"3","F">>
      [] c = "@" -> <<"4","0">>

\* url.QueryEscape of one character
EscapeChar(c) ==
    IF c \in Unreserved THEN <<c>>
    ELSE IF c = " " THEN <<"+">>
    ELSE <<"%">> \o HexOf(c)

RECURSIVE QueryEscape(_)
\* url.QueryEscape
QueryEscape(s) ==
    IF Len(s) = 0 THEN <<>> ELSE EscapeChar(Head(s)) \o QueryEscape(Tail(s))

(***************************************************************************)
(* GetQueryParams                                                          *)
(***************************************************************************)

\* The orders in which Go may range over a map: every enumeration of its keys
KeyOrders(m) ==
    { o \in [1..Cardinality(DOMAIN m) -> DOMAIN m] :
          \A i, j \in 1..Cardinality(DOMAIN m) : i # j => o[i] # o[j] }

\* One key order per tag set of the list: the nondeterminism of the two
\* nested range loops over connString.ReadPreferenceTagSets
TagIterations(tagSets) ==
    { it \in [1..Len(tagSets) -> UNION { KeyOrders(tagSets[i]) : i \in 1..Len(tagSets) } ] :
          \A i \in 1..Len(tagSets) : it[i] \in KeyOrders(tagSets[i]) }

RECURSIVE TagPairs(_, _)
\* the (key, value) pairs in the order the nested loops visit them
TagPairs(tagSets, it) ==
    IF Len(tagSets) = 0 THEN <<>>
    ELSE [j \in 1..Len(it[1]) |-> <<it[1][j], tagSets[1][it[1][j]]>>]
         \o TagPairs(Tail(tagSets), Tail(it))

RECURSIVE TagText(_, _)
\* the loop body for the pairs from the one with counter value cnt on:
\* the pair, then a comma when cnt > 0
TagText(pairs, cnt) ==
    IF Len(pairs) = 0 THEN <<>>
    ELSE pairs[1][1] \o <<":">> \o pairs[1][2]
         \o (IF cnt > 0 THEN <<",">> ELSE <<>>)
         \o TagText(Tail(pairs), cnt + 1)

QPTls(connString) ==
    IF connString.SSLSet THEN <<"&","t","l","s","=","t","r","u","e">> ELSE <<>>

QPCaFile(connString) ==
    IF connString.SSLCaFileSet THEN <<"&","t","l","s","C","A","F","i","l","e","=">> \o connString.SSLCaFile ELSE <<>>

QPCertKeyFile(connString) ==
    IF connString.SSLClientCertificateKeyFileSet
    THEN <<"&","t","l","s","C","e","r","t","i","f","i","c","a","t","e","K","e","y","F","i","l","e","=">> \o connString.SSLClientCertificateKeyFile
    ELSE <<>>

QPTlsInsecure(connString) ==
    IF connString.SSLInsecureSet THEN <<"&","t","l","s","I","n","s","e","c","u","r","e","=","t","r","u","e">> ELSE <<>>

\* mutant: the read preference emitted in either mode
QPReadPreference_AnyMode(connString, isConnectDirect) ==
    IF connString.ReadPreference # <<>>
    THEN <<"&","r","e","a","d","P","r","e","f","e","r","e","n","c","e","=">> \o connString.ReadPreference
    ELSE <<>>

QPReadPreference(connString, isConnectDirect) ==
    IF connString.ReadPreference # <<>> /\ ~isConnectDirect
    THEN <<"&","r","e","a","d","P","r","e","f","e","r","e","n","c","e","=">> \o connString.ReadPreference
    ELSE <<>>

QPReadPreferenceTags(connString, isConnectDirect, it) ==
    IF Len(connString.ReadPreferenceTagSets) > 0 /\ ~isConnectDirect
    THEN <<"&","r","e","a","d","P","r","e","f","e","r","e","n","c","e","T","a","g","s","=">>
         \o TagText(TagPairs(connString.ReadPreferenceTagSets, it), 0)
    ELSE <<>>

QPWriteConcern(connString) ==
    IF connString.WNumberSet THEN <<"&","w","=">> \o Itoa(connString.WNumber)
    ELSE IF connString.WString # <<>> THEN <<"&","w","=">> \o connString.WString
    ELSE <<>>

QPRetryReads(connString) ==
    IF connString.RetryReadsSet THEN <<"&","r","e","t","r","y","R","e","a","d","s","=","t","r","u","e">> ELSE <<>>

QPRetryWrites(connString) ==
    IF connString.RetryWritesSet THEN <<"&","r","e","t","r","y","W","r","i","t","e","s","=","t","r","u","e">> ELSE <<>>

\* GetQueryParams(connString, isConnectDirect), with `it` the order in which
\* the tag-set maps are ranged over
GetQueryParams(connString, isConnectDirect, it) ==
    QPTls(connString)
    \o QPCaFile(connString)
    \o QPCertKeyFile(connString)
    \o QPTlsInsecure(connString)
    \o QPReadPreference(connString, isConnectDirect)
    \o QPReadPreferenceTags(connString, isConnectDirect, it)
    \o QPWriteConcern(connString)
    \o QPRetryReads(connString)
    \o QPRetryWrites(connString)

(***************************************************************************)
(* GetAllShardURIs                                                         *)
(***************************************************************************)

\* a call that ends in a run-time panic (slice bounds out of range)
Panic == [panicked |-> TRUE, list |-> <<>>, err |-> "none"]

\* a call that returns (list, err)
Return(list, err) == [panicked |-> FALSE, list |-> list, err |-> err]

\* connString.String(): the connection string as given
ConnStringString(connString) == connString.Original

\* isSRV as GetAllShardURIs computes it
ShardIsSRV(connString) == Index(ConnStringString(connString), <<"m","o","n","g","o","d","b","+","s","r","v">>) = 0

\* "user:escaped-password@" + hosts, or hosts alone
ShardUserInfoHosts(connString, hosts) ==
    IF connString.Username # <<>>
    THEN connString.Username \o <<":">> \o QueryEscape(connString.Password) \o <<"@">> \o hosts
    ELSE hosts

\* fmt.Sprintf(`/%v?replicaSet=%v`, connString.Database, setName)
ShardPathAndSet(database, setName) ==
    <<"/">> \o database \o <<"?","r","e","p","l","i","c","a","S","e","t","=">> \o setName

\* mutant: an explicit authSource tested before the scheme
ShardAuthSource_ExplicitFirst(connString, isSRV) ==
    IF connString.AuthSource # <<>>
    THEN <<"&","a","u","t","h","S","o","u","r","c","e","=">> \o connString.AuthSource
    ELSE IF isSRV THEN <<"&","a","u","t","h","S","o","u","r","c","e","=","a","d","m","i","n","&","t","l","s","=","t","r","u","e">>
    ELSE <<>>

\* the authSource part of a discovery URI
ShardAuthSource(connString, isSRV) ==
    IF ~isSRV /\ connString.AuthSource # <<>>
    THEN <<"&","a","u","t","h","S","o","u","r","c","e","=">> \o connString.AuthSource
    ELSE IF isSRV THEN <<"&","a","u","t","h","S","o","u","r","c","e","=","a","d","m","i","n","&","t","l","s","=","t","r","u","e">>
    ELSE <<>>

\* mutant: the slice taken one character too far: shard.Host[:idx+1]
ShardSetName_OffByOne(host, idx) == SliceTo(host, idx + 1)

\* the replica-set name of a shard: shard.Host[:idx]
ShardSetName(host, idx) == SliceTo(host, idx)

\* the body of the loop over shards, for a shard whose slices are in range
ShardURI(shard, connString, isSRV, it) ==
    LET idx     == Index(shard.Host, <<"/">>)
        setName == ShardSetName(shard.Host, idx)
        hosts   == SliceFrom(shard.Host, idx + 1)
    IN  <<"m","o","n","g","o","d","b",":","/","/">>
        \o ShardUserInfoHosts(connString, hosts)
        \o ShardPathAndSet(connString.Database, setName)
        \o ShardAuthSource(connString, isSRV)
        \o GetQueryParams(connString, FALSE, it)

\* shard.Host[:idx] and shard.Host[idx+1:] are in range
HostSlicesInRange(shard) ==
    LET idx == Index(shard.Host, <<"/">>)
    IN  /\ SliceInRange(shard.Host, 0, idx)
        /\ SliceInRange(shard.Host, idx + 1, Len(shard.Host))

\* GetAllShardURIs(shards, connString)
GetAllShardURIs(shardList, connString, it) ==
    IF \E i \in 1..Len(shardList) : ~HostSlicesInRange(shardList[i])
    THEN Panic
    ELSE Return([i \in 1..Len(shardList) |->
                    ShardURI(shardList[i], connString, ShardIsSRV(connString), it)],
                "nil")

(***************************************************************************)
(* GetAllServerURIs: the seed-host structures                              *)
(***************************************************************************)

\* width of the "-shard-" infix (cleaned[idx+7:])
ShardInfixLen == 7

\* width of the "NN-NN" shard/member index after the infix (afterShard[:5])
ShardIndexLen == 5

\* the decoration tokens removed before matching
DecorationTokens == << <<"-","w","u","c","d","t">>, <<"-","p","r","i">>, <<"-","s","e","c">> >>

\* a seed host without its port: origHost[:idx] when ":" is at an offset > 0
OrigHostname(origHost) ==
    LET idx == Index(origHost, <<":">>)
    IN  IF idx > 0 THEN SliceTo(origHost, idx) ELSE origHost

\* originalHostsMap[k] = v
MapPut(m, k, v) == [x \in (DOMAIN m) \cup {k} |-> IF x = k THEN v ELSE m[x]]

\* the entries one seed hostname adds to originalHostsMap
MapAddSeed(m, origHostname) ==
    IF Contains(origHostname, <<"-","p","r","i">>)
    THEN LET idx == Index(origHostname, <<"-","p","r","i">>)
         IN  IF idx > 0
             THEN LET baseHost  == SliceTo(origHostname, idx)
                      domainIdx == Index(baseHost, <<".">>)
                      m1 == IF domainIdx > 0
                            THEN MapPut(m, SliceTo(baseHost, domainIdx), origHostname)
                            ELSE m
                  IN  MapPut(m1, baseHost, origHostname)
             ELSE m
    ELSE m

RECURSIVE BuildOriginalHostsMap(_, _)
\* originalHostsMap after the loop over connString.Hosts, from map m on
BuildOriginalHostsMap(m, hosts) ==
    IF Len(hosts) = 0 THEN m
    ELSE BuildOriginalHostsMap(MapAddSeed(m, OrigHostname(Head(hosts))), Tail(hosts))

\* originalHostsList after the loop over connString.Hosts
BuildOriginalHostsList(hosts) == [i \in 1..Len(hosts) |-> OrigHostname(hosts[i])]

(***************************************************************************)
(* GetAllServerURIs: hostname reconciliation                               *)
(***************************************************************************)

\* mutant: the port taken after its colon: host[idx+1:]
SplitHostPort_NoColon(host) ==
    LET idx == Index(host, <<":">>)
    IN  IF idx > 0
        THEN [hostname |-> SliceTo(host, idx), port |-> SliceFrom(host, idx + 1)]
        ELSE [hostname |-> host, port |-> <<>>]

\* host[:idx] and host[idx:] of a member host, port with its colon
SplitHostPort(host) ==
    LET idx == Index(host, <<":">>)
    IN  IF idx > 0
        THEN [hostname |-> SliceTo(host, idx), port |-> SliceFrom(host, idx)]
        ELSE [hostname |-> host, port |-> <<>>]

\* the identifier cut out of a cleaned label that holds "-shard-" at idx > 0
CutShardID(cleaned, idx) ==
    LET afterShard == SliceFrom(cleaned, idx + ShardInfixLen)
    IN  IF /\ Len(afterShard) >= ShardIndexLen
           /\ Contains(SliceTo(afterShard, ShardIndexLen), <<"-">>)
        THEN SliceTo(cleaned, idx + ShardInfixLen + ShardIndexLen)
        ELSE cleaned

\* shardID of a topology host, from the first label of its hostname
TopologyShardID(firstPart) ==
    IF Contains(firstPart, <<"-","s","h","a","r","d","-">>)
    THEN LET cleaned == Replace(firstPart, DecorationTokens)
             idx     == Index(cleaned, <<"-","s","h","a","r","d","-">>)
         IN  IF idx > 0 THEN CutShardID(cleaned, idx) ELSE cleaned
    ELSE firstPart

\* origBase of a seed hostname: cut at "-pri", then at the first "."
OrigBase(origHost) ==
    LET idx     == Index(origHost, <<"-","p","r","i">>)
        cutPri  == IF idx > 0 THEN SliceTo(origHost, idx) ELSE origHost
        dotIdx  == Index(cutPri, <<".">>)
    IN  IF dotIdx > 0 THEN SliceTo(cutPri, dotIdx) ELSE cutPri

\* origShardID of a seed hostname
OrigShardID(origHost) ==
    LET origBase == OrigBase(origHost)
    IN  IF Contains(origBase, <<"-","s","h","a","r","d","-">>)
        THEN LET cleaned == Replace(origBase, DecorationTokens)
                 idx     == Index(cleaned, <<"-","s","h","a","r","d","-">>)
             IN  IF idx > 0 THEN CutShardID(cleaned, idx) ELSE origBase
        ELSE origBase

\* mutant: the identifiers compared by prefix
ShardIDsMatch_Prefix(origShardID, shardID) == HasPrefix(shardID, origShardID)

\* the comparison of the similarity scan
ShardIDsMatch(origShardID, shardID) == origShardID = shardID

\* the scan of originalHostsList: the first seed whose identifier matches
ScanOriginalHosts(originalHostsList, shardID) ==
    LET hits == { i \in 1..Len(originalHostsList) :
                      ShardIDsMatch(OrigShardID(originalHostsList[i]), shardID) }
    IN  IF hits = {} THEN [matched |-> FALSE, hostname |-> <<>>]
        ELSE [matched  |-> TRUE,
              hostname |-> originalHostsList[CHOOSE i \in hits : \A j \in hits : i <= j]]

\* the matching step: direct map first, then the scan
MatchOriginal(hostname, originalHostsMap, originalHostsList) ==
    IF Cardinality(DOMAIN originalHostsMap) > 0 \/ Len(originalHostsList) > 0
    THEN LET baseParts == Split(hostname, <<".">>)
             shardID   == TopologyShardID(baseParts[1])
         IN  IF shardID \in DOMAIN originalHostsMap
             THEN [matched |-> TRUE, hostname |-> originalHostsMap[shardID]]
             ELSE LET scan == ScanOriginalHosts(originalHostsList, shardID)
                  IN  IF scan.matched THEN scan
                      ELSE [matched |-> FALSE, hostname |-> hostname]
    ELSE [matched |-> FALSE, hostname |-> hostname]

\* mutant: the synthesis step without the managed-domain test
SynthesizePri_AnyDomain(hostname) ==
    IF /\ Contains(hostname, <<"-","s","h","a","r","d","-">>)
       /\ ~Contains(hostname, <<"-","p","r","i">>)
    THEN LET parts        == Split(hostname, <<".">>)
             cleanedFirst == Replace(parts[1], << <<"-","w","u","c","d","t">> >>)
         IN  cleanedFirst \o <<"-","p","r","i",".">> \o Join(Tail(parts), <<".">>)
    ELSE hostname

\* the synthesis step for an unmatched hostname
SynthesizePri(hostname) ==
    IF /\ Contains(hostname, <<"-","s","h","a","r","d","-">>)
       /\ Contains(hostname, <<".","g","c","p",".","m","o","n","g","o","d","b",".","n","e","t">>)
       /\ ~Contains(hostname, <<"-","p","r","i">>)
    THEN LET parts        == Split(hostname, <<".">>)
             cleanedFirst == Replace(parts[1], << <<"-","w","u","c","d","t">> >>)
         IN  cleanedFirst \o <<"-","p","r","i",".">> \o Join(Tail(parts), <<".">>)
    ELSE hostname

\* finalHost of one member host
FinalHost(host, originalHostsMap, originalHostsList) ==
    LET hp == SplitHostPort(host)
        m  == MatchOriginal(hp.hostname, originalHostsMap, originalHostsList)
        hostname == IF m.matched THEN m.hostname ELSE SynthesizePri(m.hostname)
    IN  IF hp.port # <<>> THEN hostname \o hp.port ELSE hostname

(***************************************************************************)
(* GetAllServerURIs: the URIs                                              *)
(***************************************************************************)

\* isSRV as GetAllServerURIs computes it
ServerIsSRV(connString) == HasPrefix(ConnStringString(connString), <<"m","o","n","g","o","d","b","+","s","r","v">>)

\* "mongodb://" + [user:escaped-password@] + finalHost + "/?"
ServerHead(connString, finalHost) ==
    <<"m","o","n","g","o","d","b",":","/","/">>
    \o (IF connString.Username # <<>>
        THEN connString.Username \o <<":">> \o QueryEscape(connString.Password)
             \o <<"@">> \o finalHost \o <<"/","?">>
        ELSE finalHost \o <<"/","?">>)

\* fmt.Sprintf(`replicaSet=%v&`, setName)
ServerSetParam(setName) == <<"r","e","p","l","i","c","a","S","e","t","=">> \o setName \o <<"&">>

\* the authSource part of a direct URI
ServerAuthSource(connString, isSRV) ==
    IF isSRV THEN <<"a","u","t","h","S","o","u","r","c","e","=","a","d","m","i","n","&","t","l","s","=","t","r","u","e">>
    ELSE IF connString.AuthSource # <<>> THEN <<"a","u","t","h","S","o","u","r","c","e","=">> \o connString.AuthSource
    ELSE IF connString.Username # <<>> THEN <<"a","u","t","h","S","o","u","r","c","e","=","a","d","m","i","n">>
    ELSE <<>>

\* the URI of one member host
ServerURI(host, setName, connString, originalHostsMap, originalHostsList, it) ==
    ServerHead(connString, FinalHost(host, originalHostsMap, originalHostsList))
    \o ServerSetParam(setName)
    \o ServerAuthSource(connString, ServerIsSRV(connString))
    \o GetQueryParams(connString, TRUE, it)

\* the URIs of the members of one shard, in member order
ShardServerURIs(shard, connString, originalHostsMap, originalHostsList, it) ==
    LET idx      == Index(shard.Host, <<"/">>)
        setName  == SliceTo(shard.Host, idx)
        allHosts == SliceFrom(shard.Host, idx + 1)
        hosts    == Split(allHosts, <<",">>)
    IN  [k \in 1..Len(hosts) |->
            ServerURI(hosts[k], setName, connString,
                      originalHostsMap, originalHostsList, it)]

RECURSIVE AppendAll_Prepending(_)
\* mutant: each shard's URIs put in front of the list
AppendAll_Prepending(lists) ==
    IF Len(lists) = 0 THEN <<>> ELSE AppendAll_Prepending(Tail(lists)) \o Head(lists)

RECURSIVE AppendAll(_)
\* list after appending the URIs of every shard in turn
AppendAll(lists) ==
    IF Len(lists) = 0 THEN <<>> ELSE Head(lists) \o AppendAll(Tail(lists))

\* GetAllServerURIs(shards, connString)
GetAllServerURIs(shardList, connString, it) ==
    LET originalHostsMap  == BuildOriginalHostsMap(<<>>, connString.Hosts)
        originalHostsList == BuildOriginalHostsList(connString.Hosts)
    IN  IF \E i \in 1..Len(shardList) : ~HostSlicesInRange(shardList[i])
        THEN Panic
        ELSE Return(AppendAll([i \in 1..Len(shardList) |->
                        ShardServerURIs(shardList[i], connString,
                                        originalHostsMap, originalHostsList, it)]),
                    "nil")

(***************************************************************************)
(* Inputs: the shard list (as GetShards returns it, ascending by ID) and   *)
(* the parsed connection string                                            *)
(***************************************************************************)

\* most shards in a shard list
MaxShards == 2

\* most seed hosts in connString.Hosts
MaxSeeds == 2

\* most member hosts of the shard in the reconciliation runs
MaxMembers == 1

\* shard IDs by position: the list is sorted ascending by ID
ShardIDs == << <<"s","h","a","r","d","0","1">>, <<"s","h","a","r","d","0","2">>, <<"s","h","a","r","d","0","3">>, <<"s","h","a","r","d","0","4">> >>

\* sequences over S of length lo..hi
SeqsOf(S, lo, hi) == UNION { [1..n -> S] : n \in lo..hi }

\* the shard list whose i-th shard has the i-th ID and the i-th host field
ShardList(hostFields) ==
    [i \in 1..Len(hostFields) |-> [ID |-> ShardIDs[i], Host |-> hostFields[i]]]

\* host fields of listShards: well formed, without a port, without members,
\* without the separator
HostFields ==
    { <<"s","h","a","r","d","0","1","/","h","1",":","2","7","0","1","8",",","h","2",":","2","7","0","1","8">>,
      <<"r","s","0","/","d","b","1",".","i","n","t","e","r","n","a","l",":","2","7","0","1","7">>,
      <<"r","s","1","/","h","3">>,
      <<"r","s","0","/">>,
      <<"r","s","1">> }

\* the managed-provider naming scheme: <name>-shard-NN-NN[-pri].<domain>
AtlasNames == { <<"p","r","o","d","-","x">>, <<"a","-","p","r","i">> }

AtlasIndexes == { <<"0","0","-","0","0">> }

AtlasDomains == { <<"e","x","a","m","p","l","e",".","n","e","t">> }

MemberPorts == { <<":","2","7","0","1","7">>, <<>> }

AtlasSeed(name, index, domain) ==
    name \o <<"-","s","h","a","r","d","-">> \o index \o <<"-","p","r","i",".">> \o domain

AtlasMember(name, index, domain, port) ==
    name \o <<"-","s","h","a","r","d","-">> \o index \o <<".">> \o domain \o port

\* member hosts as the topology reports them
MemberPool ==
    { AtlasMember(n, i, d, p) :
          n \in AtlasNames, i \in AtlasIndexes, d \in AtlasDomains, p \in MemberPorts }
    \cup { <<"h","1",":","2","7","0","1","8">>,
           <<"d","b","1",".","i","n","t","e","r","n","a","l">>,
           <<"a","-","s","h","a","r","d","-","0","0","-","0","1","-","w","u","c","d","t",".","g","c","p",".","m","o","n","g","o","d","b",".","n","e","t",":","2","7","0","1","7">> }

\* seed hosts as the user gave them
SeedPool ==
    { AtlasSeed(n, i, d) : n \in AtlasNames, i \in AtlasIndexes, d \in AtlasDomains }
    \cup { <<"d","b","1",".","e","x","a","m","p","l","e",".","c","o","m",":","2","7","0","1","7">>,
           <<"d","b","1",".","o","t","h","e","r",".","o","r","g">>,
           <<"d","b",".","e","x","a","m","p","l","e",".","o","r","g">> }

\* read-preference tag sets
TagSetEast == (<<"d","c">> :> <<"e","a","s","t">>)

TagSetEastRack == (<<"d","c">> :> <<"e","a","s","t">>) @@ (<<"r","a","c","k">> :> <<"r","1">>)

\* a connection string with no option set
NoOptions ==
    [ SSLSet |-> FALSE, SSL |-> FALSE,
      SSLCaFileSet |-> FALSE, SSLCaFile |-> <<>>,
      SSLClientCertificateKeyFileSet |-> FALSE, SSLClientCertificateKeyFile |-> <<>>,
      SSLInsecureSet |-> FALSE, SSLInsecure |-> FALSE,
      ReadPreference |-> <<>>,
      ReadPreferenceTagSets |-> <<>>,
      WNumberSet |-> FALSE, WNumber |-> 0,
      WString |-> <<>>,
      RetryReadsSet |-> FALSE, RetryReads |-> FALSE,
      RetryWritesSet |-> FALSE, RetryWrites |-> FALSE ]

\* a connection string with every option set
AllOptions ==
    [ SSLSet |-> TRUE, SSL |-> TRUE,
      SSLCaFileSet |-> TRUE, SSLCaFile |-> <<"c","a",".","p","e","m">>,
      SSLClientCertificateKeyFileSet |-> TRUE, SSLClientCertificateKeyFile |-> <<"k","e","y",".","p","e","m">>,
      SSLInsecureSet |-> TRUE, SSLInsecure |-> TRUE,
      ReadPreference |-> <<"s","e","c","o","n","d","a","r","y">>,
      ReadPreferenceTagSets |-> <<TagSetEastRack, TagSetEast>>,
      WNumberSet |-> TRUE, WNumber |-> 1,
      WString |-> <<"m","a","j","o","r","i","t","y">>,
      RetryReadsSet |-> TRUE, RetryReads |-> TRUE,
      RetryWritesSet |-> TRUE, RetryWrites |-> TRUE ]

\* the option part of the connection strings of the general runs
OptionProfiles ==
    { NoOptions,
      AllOptions,
      [NoOptions EXCEPT !.ReadPreference = <<"s","e","c","o","n","d","a","r","y">>,
                        !.ReadPreferenceTagSets = <<TagSetEastRack>>],
      [NoOptions EXCEPT !.SSLSet = TRUE, !.SSL = TRUE, !.WString = <<"m","a","j","o","r","i","t","y">>] }

\* every combination of the options, each flag option given as "true"
OptionProduct ==
    { [ SSLSet |-> tls, SSL |-> tls,
        SSLCaFileSet |-> ca, SSLCaFile |-> IF ca THEN <<"c","a",".","p","e","m">> ELSE <<>>,
        SSLClientCertificateKeyFileSet |-> ck,
        SSLClientCertificateKeyFile |-> IF ck THEN <<"k","e","y",".","p","e","m">> ELSE <<>>,
        SSLInsecureSet |-> ins, SSLInsecure |-> ins,
        ReadPreference |-> rp,
        ReadPreferenceTagSets |-> tags,
        WNumberSet |-> wn, WNumber |-> IF wn THEN 1 ELSE 0,
        WString |-> ws,
        RetryReadsSet |-> rr, RetryReads |-> rr,
        RetryWritesSet |-> rw, RetryWrites |-> rw ] :
      tls \in BOOLEAN, ca \in BOOLEAN, ck \in BOOLEAN, ins \in BOOLEAN,
      rp \in { <<>>, <<"s","e","c","o","n","d","a","r","y">> },
      tags \in { <<>>, <<TagSetEast>>, <<TagSetEastRack>> },
      wn \in BOOLEAN, ws \in { <<>>, <<"m","a","j","o","r","i","t","y">> },
      rr \in BOOLEAN, rw \in BOOLEAN }

\* a flag option as the connection string gives it: absent, "true" or "false"
\* (the parser records that it was given in ...Set and its value beside it)
FlagStates ==
    { [set |-> FALSE, value |-> FALSE],
      [set |-> TRUE,  value |-> TRUE],
      [set |-> TRUE,  value |-> FALSE] }

\* every combination of the flag options and of the write concern
FlagProduct ==
    { [NoOptions EXCEPT !.SSLSet = tls.set, !.SSL = tls.value,
                        !.SSLInsecureSet = ins.set, !.SSLInsecure = ins.value,
                        !.RetryReadsSet = rr.set, !.RetryReads = rr.value,
                        !.RetryWritesSet = rw.set, !.RetryWrites = rw.value,
                        !.WNumberSet = wn, !.WNumber = IF wn THEN 2 ELSE 0,
                        !.WString = ws] :
      tls \in FlagStates, ins \in FlagStates, rr \in FlagStates, rw \in FlagStates,
      wn \in BOOLEAN, ws \in { <<>>, <<"m","a","j","o","r","i","t","y">> } }

\* passwords: unreserved characters only, reserved characters, a space
Passwords == { <<"s","e","c","r","e","t">>, <<"p","@","s","s","/","w",":","d">>, <<"m","y"," ","p","a","s","s">> }

\* the parsed connection string: scheme and credentials, seed hosts, options
ConnString(original, user, authSource, hosts, options) ==
    [ Original |-> original,
      Username |-> user,
      Password |-> IF user = <<>> THEN <<>> ELSE <<"p","@","s","s"," ","w","/","d">>,
      Database |-> <<"a","d","m","i","n">>,
      AuthSource |-> authSource,
      Hosts |-> hosts,
      SSLSet |-> options.SSLSet,
      SSL |-> options.SSL,
      SSLCaFileSet |-> options.SSLCaFileSet,
      SSLCaFile |-> options.SSLCaFile,
      SSLClientCertificateKeyFileSet |-> options.SSLClientCertificateKeyFileSet,
      SSLClientCertificateKeyFile |-> options.SSLClientCertificateKeyFile,
      SSLInsecureSet |-> options.SSLInsecureSet,
      SSLInsecure |-> options.SSLInsecure,
      ReadPreference |-> options.ReadPreference,
      ReadPreferenceTagSets |-> options.ReadPreferenceTagSets,
      WNumberSet |-> options.WNumberSet,
      WNumber |-> options.WNumber,
      WString |-> options.WString,
      RetryReadsSet |-> options.RetryReadsSet,
      RetryReads |-> options.RetryReads,
      RetryWritesSet |-> options.RetryWritesSet,
      RetryWrites |-> options.RetryWrites ]

Originals == { <<"m","o","n","g","o","d","b",":","/","/","s","e","e","d","/">>, <<"m","o","n","g","o","d","b","+","s","r","v",":","/","/","s","e","e","d","/">> }

Usernames == { <<>>, <<"u","s","e","r">> }

AuthSources == { <<>>, <<"e","x","t">> }

\* no call made yet
NoResult == [panicked |-> FALSE, list |-> <<>>, err |-> "none"]

(***************************************************************************)
(* The state machine: one call of one of the three functions on the inputs *)
(***************************************************************************)

InitCall ==
    /\ call = "none"
    /\ out = NoResult

\* general runs: any shard list, the options in profiles
Init ==
    /\ shards \in { ShardList(h) : h \in SeqsOf(HostFields, 0, MaxShards) }
    /\ cs \in { ConnString(o, u, a, h, p) :
                    o \in Originals, u \in Usernames, a \in AuthSources,
                    h \in { <<>>, << <<"h","9",":","2","7","0","1","7">> >>, << <<"h","1",".","e","x","a","m","p","l","e",".","n","e","t">> >> },
                    p \in OptionProfiles }
    /\ InitCall

\* reconciliation runs: one shard, any members and any seed hosts
InitHosts ==
    /\ shards \in { ShardList(<< <<"r","s","0","/">> \o Join(m, <<",">>) >>) :
                        m \in SeqsOf(MemberPool, 1, MaxMembers) }
    /\ cs \in { ConnString(<<"m","o","n","g","o","d","b",":","/","/","s","e","e","d","/">>, <<>>, <<>>, h, NoOptions) :
                    h \in SeqsOf(SeedPool, 0, MaxSeeds) }
    /\ InitCall

\* option runs: one well-formed shard, every combination of the options
InitParams ==
    /\ shards = ShardList(<< <<"s","h","a","r","d","0","1","/","h","1",":","2","7","0","1","8",",","h","2",":","2","7","0","1","8">> >>)
    /\ cs \in { ConnString(o, u, a, <<>>, p) :
                    o \in Originals, u \in Usernames, a \in AuthSources,
                    p \in OptionProduct }
    /\ InitCall

\* flag runs: one well-formed shard, every state of the flag options
InitFlags ==
    /\ shards = ShardList(<< <<"s","h","a","r","d","0","1","/","h","1",":","2","7","0","1","8",",","h","2",":","2","7","0","1","8">> >>)
    /\ cs \in { ConnString(o, <<>>, <<>>, <<>>, p) : o \in Originals, p \in FlagProduct }
    /\ InitCall

\* credential runs: well-formed shards, any user and password
InitCreds ==
    /\ shards \in { ShardList(h) :
                        h \in SeqsOf({ <<"s","h","a","r","d","0","1","/","h","1",":","2","7","0","1","8",",","h","2",":","2","7","0","1","8">>, <<"r","s","1","/","h","3">> },
                                     0, MaxShards) }
    /\ cs \in { ConnString(o, <<>>, a, <<>>, NoOptions) :
                    o \in Originals, a \in AuthSources }
             \cup { [ConnString(o, <<"u","s","e","r">>, a, <<>>, NoOptions) EXCEPT !.Password = pw] :
                        o \in Originals, a \in AuthSources, pw \in Passwords }
    /\ InitCall

\* member-pair runs: one shard of two members, at most one seed host
InitPairs ==
    /\ shards \in { ShardList(<< <<"r","s","0","/">> \o m1 \o <<",">> \o m2 >>) :
                        m1 \in MemberPool \cup { <<"d","b","1",".","b","a","c","k","u","p">> },
                        m2 \in MemberPool \cup { <<"d","b","1",".","b","a","c","k","u","p">> } }
    /\ cs \in { ConnString(<<"m","o","n","g","o","d","b",":","/","/","s","e","e","d","/">>, <<>>, <<>>, h, NoOptions) :
                    h \in SeqsOf(SeedPool, 0, 1) }
    /\ InitCall

CallGetAllShardURIs ==
    /\ call = "none"
    /\ \E it \in TagIterations(cs.ReadPreferenceTagSets) :
           out' = GetAllShardURIs(shards, cs, it)
    /\ call' = "GetAllShardURIs"
    /\ UNCHANGED <<shards, cs>>

CallGetAllServerURIs ==
    /\ call = "none"
    /\ \E it \in TagIterations(cs.ReadPreferenceTagSets) :
           out' = GetAllServerURIs(shards, cs, it)
    /\ call' = "GetAllServerURIs"
    /\ UNCHANGED <<shards, cs>>

CallGetQueryParams ==
    /\ call = "none"
    /\ \E isConnectDirect \in BOOLEAN :
         \E it \in TagIterations(cs.ReadPreferenceTagSets) :
           /\ out' = Return(<<GetQueryParams(cs, isConnectDirect, it)>>, "none")
           /\ call' = IF isConnectDirect THEN "GetQueryParamsDirect"
                                         ELSE "GetQueryParamsDiscovery"
    /\ UNCHANGED <<shards, cs>>

Next ==
    \/ CallGetAllShardURIs
    \/ CallGetAllServerURIs
    \/ CallGetQueryParams

Spec == Init /\ [][Next]_vars

SpecHosts == InitHosts /\ [][Next]_vars

SpecParams == InitParams /\ [][Next]_vars

SpecFlags == InitFlags /\ [][Next]_vars

SpecCreds == InitCreds /\ [][Next]_vars

SpecPairs == InitPairs /\ [][Next]_vars

(***************************************************************************)
(* Reading a URI back, for the properties                                  *)
(***************************************************************************)

\* the host list of a URI: after "mongodb://" and the user info, up to "/"
HostPart(uri) ==
    LET rest      == SliceFrom(uri, Len(<<"m","o","n","g","o","d","b",":","/","/">>))
        authority == SliceTo(rest, Index(rest, <<"/">>))
        at        == Index(authority, <<"@">>)
    IN  IF at >= 0 THEN SliceFrom(authority, at + 1) ELSE authority

\* the query of a URI: what follows the first "?"
QueryOf(uri) == SliceFrom(uri, Index(uri, <<"?">>) + 1)

\* the values of the query parameters named key, in order
ParamValues(uri, key) ==
    LET IsKey(p) == HasPrefix(p, key \o <<"=">>)
        hits     == SelectSeq(Split(QueryOf(uri), <<"&">>), IsKey)
    IN  [i \in 1..Len(hits) |-> SliceFrom(hits[i], Len(key) + 1)]

\* the host field has the "/" separator
HasSeparator(host) == Contains(host, <<"/">>)

\* the replica-set name of a host field: the text before the first "/"
SetNameOf(host) == SliceTo(host, Index(host, <<"/">>))

\* the member list of a host field: the text after the first "/"
MemberListOf(host) == SliceFrom(host, Index(host, <<"/">>) + 1)

\* the member hosts of a host field
MembersOf(host) == Split(MemberListOf(host), <<",">>)

\* a host field with the separator and at least one member after it
WellFormed(host) == HasSeparator(host) /\ MemberListOf(host) # <<>>

RECURSIVE MemberPairs(_)
\* (shard, member) pairs of a well-formed shard list, shard order then
\* member order: <<set name, member host>>
MemberPairs(shardList) ==
    IF Len(shardList) = 0 THEN <<>>
    ELSE [k \in 1..Len(MembersOf(shardList[1].Host)) |->
             << SetNameOf(shardList[1].Host), MembersOf(shardList[1].Host)[k] >>]
         \o MemberPairs(Tail(shardList))

\* the hostname of a host, its port cut off
HostnameOnly(host) ==
    LET idx == Index(host, <<":">>)
    IN  IF idx > 0 THEN SliceTo(host, idx) ELSE host

\* the first label of a host: its hostname up to the first "."
FirstLabel(host) == Split(HostnameOnly(host), <<".">>)[1]

\* the host carries a managed-provider marker
HasMarker(host) ==
    \/ Contains(host, <<"-","p","r","i">>)
    \/ Contains(host, <<"-","s","h","a","r","d","-">>)
    \/ Contains(host, <<"-","w","u","c","d","t">>)
    \/ Contains(host, <<"-","s","e","c">>)
    \/ Contains(host, <<".","g","c","p",".","m","o","n","g","o","d","b",".","n","e","t">>)

\* the hostname is one the synthesis step rewrites
IsSynthesized(host) ==
    /\ Contains(HostnameOnly(host), <<"-","s","h","a","r","d","-">>)
    /\ Contains(HostnameOnly(host), <<".","g","c","p",".","m","o","n","g","o","d","b",".","n","e","t">>)
    /\ ~Contains(HostnameOnly(host), <<"-","p","r","i">>)

\* the input scheme is SRV
InputIsSRV == HasPrefix(cs.Original, <<"m","o","n","g","o","d","b","+","s","r","v",":","/","/">>)

\* the connection string sets no option
HasNoOptions ==
    /\ ~cs.SSLSet /\ ~cs.SSLCaFileSet /\ ~cs.SSLClientCertificateKeyFileSet
    /\ ~cs.SSLInsecureSet
    /\ cs.ReadPreference = <<>> /\ cs.ReadPreferenceTagSets = <<>>
    /\ ~cs.WNumberSet /\ cs.WString = <<>>
    /\ ~cs.RetryReadsSet /\ ~cs.RetryWritesSet

AllWellFormed == \A i \in 1..Len(shards) : WellFormed(shards[i].Host)

DiscoveryDone == call = "GetAllShardURIs"

DirectDone == call = "GetAllServerURIs"

BuilderDone == DiscoveryDone \/ DirectDone

\* the builder returned a data-integrity error, no panic and no URI
IntegrityError == ~out.panicked /\ out.err = "integrity" /\ out.list = <<>>

(***************************************************************************)
(* C1                                                                      *)
(***************************************************************************)

\* C1: when some shard's host field has no "/" separator, GetAllShardURIs
\* and GetAllServerURIs both return a data-integrity error: no panic and no
\* URI built from that shard.
C1_MissingSeparatorIsIntegrityError ==
    (BuilderDone /\ \E i \in 1..Len(shards) : ~HasSeparator(shards[i].Host))
        => IntegrityError

(***************************************************************************)
(* C2                                                                      *)
(***************************************************************************)

\* no seed host matches a member host of the topology
NoSeedMatches ==
    \A i \in 1..Len(MemberPairs(shards)) :
        ~MatchOriginal(HostnameOnly(MemberPairs(shards)[i][2]),
                       BuildOriginalHostsMap(<<>>, cs.Hosts),
                       BuildOriginalHostsList(cs.Hosts)).matched

\* the configuration of C2: not SRV, no user, no authSource, no option
PlainConfig ==
    /\ ~InputIsSRV
    /\ cs.Username = <<>>
    /\ cs.AuthSource = <<>>
    /\ HasNoOptions

\* C2: for a plain configuration whose seed hosts match no topology host,
\* each discovery URI is exactly "mongodb://" members "/" database
\* "?replicaSet=" set name, and each direct URI is exactly "mongodb://"
\* member "/?replicaSet=" set name with nothing after the set name.
C2_PlainURIsExact ==
    (AllWellFormed /\ PlainConfig /\ NoSeedMatches) =>
        /\ DiscoveryDone =>
              out.list = [i \in 1..Len(shards) |->
                             <<"m","o","n","g","o","d","b",":","/","/">> \o MemberListOf(shards[i].Host)
                             \o <<"/">> \o cs.Database
                             \o <<"?","r","e","p","l","i","c","a","S","e","t","=">> \o SetNameOf(shards[i].Host)]
        /\ DirectDone =>
              out.list = [i \in 1..Len(MemberPairs(shards)) |->
                             <<"m","o","n","g","o","d","b",":","/","/">> \o MemberPairs(shards)[i][2]
                             \o <<"/","?","r","e","p","l","i","c","a","S","e","t","=">> \o MemberPairs(shards)[i][1]]

(***************************************************************************)
(* C3                                                                      *)
(***************************************************************************)

\* C3: the discovery URI of every shard of a well-formed shard list contains
\* "replicaSet=<id>" exactly once, <id> being the shard's ID field.
C3_ReplicaSetIsShardID ==
    (DiscoveryDone /\ AllWellFormed) =>
        \A i \in 1..Len(shards) :
            Count(out.list[i], <<"r","e","p","l","i","c","a","S","e","t","=">> \o shards[i].ID) = 1

\* C3 as amended: the discovery URI of every shard contains
\* "replicaSet=<name>" exactly once, as its only replicaSet parameter, <name>
\* being the replica-set name that prefixes the shard's host field (the text
\* before the first "/"), whatever the shard's ID.
C3_ReplicaSetIsHostPrefix ==
    (DiscoveryDone /\ ~out.panicked) =>
        \A i \in 1..Len(shards) :
            /\ Count(out.list[i], <<"r","e","p","l","i","c","a","S","e","t","=">> \o SetNameOf(shards[i].Host)) = 1
            /\ ParamValues(out.list[i], <<"r","e","p","l","i","c","a","S","e","t">>) = << SetNameOf(shards[i].Host) >>

\* a discovery URI was built for a shard whose ID is not its set name
C3_Witness ==
    /\ DiscoveryDone /\ AllWellFormed
    /\ \E i \in 1..Len(shards) : shards[i].ID # SetNameOf(shards[i].Host)
    /\ \E i \in 1..Len(shards) : shards[i].ID = SetNameOf(shards[i].Host)

(***************************************************************************)
(* C4                                                                      *)
(***************************************************************************)

\* no seed host carries a managed-provider marker
NoSeedHasMarker == \A i \in 1..Len(cs.Hosts) : ~HasMarker(cs.Hosts[i])

\* the k-th member host of the topology, in shard order then member order
Member(k) == MemberPairs(shards)[k][2]

\* the host part of the k-th direct URI is the k-th member host as reported
Unchanged(k) == HostPart(out.list[k]) = Member(k)

\* C4: if no seed host carries a managed-provider marker, the host part of
\* every member's direct URI is the topology-reported host unchanged.
C4_NoMarkerIsIdentity ==
    (DirectDone /\ ~out.panicked /\ NoSeedHasMarker) =>
        \A k \in 1..Len(out.list) : Unchanged(k)

\* C4 as amended: if no seed host carries a managed-provider marker, every
\* member host that carries no marker either and whose first label (the
\* hostname up to its first ".") is the first label of no seed host is
\* unchanged in its direct URI.
C4_NoMarkerNoLabelIsIdentity ==
    (DirectDone /\ ~out.panicked /\ NoSeedHasMarker) =>
        \A k \in 1..Len(out.list) :
            ( /\ ~HasMarker(Member(k))
              /\ \A i \in 1..Len(cs.Hosts) :
                     FirstLabel(cs.Hosts[i]) # FirstLabel(Member(k)) )
            => Unchanged(k)

\* direct URIs were built for a marker-free member under marker-free seeds
\* none of which shares its first label
C4_Witness ==
    /\ DirectDone /\ ~out.panicked /\ NoSeedHasMarker
    /\ Len(cs.Hosts) > 0
    /\ \E k \in 1..Len(out.list) :
           /\ ~HasMarker(Member(k))
           /\ \A i \in 1..Len(cs.Hosts) :
                  FirstLabel(cs.Hosts[i]) # FirstLabel(Member(k))
           /\ Contains(Member(k), <<":">>)

(***************************************************************************)
(* C5                                                                      *)
(***************************************************************************)

\* C5: with an empty seed host list every member host, whatever its form,
\* is unchanged in its direct URI, and a member without a port yields a URI
\* without a port segment.
C5_EmptySeedsIsIdentity ==
    (DirectDone /\ ~out.panicked /\ cs.Hosts = <<>>) =>
        \A k \in 1..Len(out.list) :
            /\ Unchanged(k)
            /\ ~Contains(Member(k), <<":">>)
                   => ~Contains(HostPart(out.list[k]), <<":">>)

\* C5 as amended: with an empty seed host list every member host is unchanged
\* in its direct URI, except a member whose hostname holds "-shard-" and
\* ".gcp.mongodb.net" but not "-pri", whose hostname is rewritten (the "-pri"
\* marker is synthesized) while its port is kept; a member without a port
\* yields a URI without a port segment.
C5_EmptySeedsIsIdentityButSynthesis ==
    (DirectDone /\ ~out.panicked /\ cs.Hosts = <<>>) =>
        \A k \in 1..Len(out.list) :
            LET member == Member(k)
                port   == SliceFrom(member, Len(HostnameOnly(member)))
            IN  /\ ~IsSynthesized(member) => Unchanged(k)
                /\ IsSynthesized(member) =>
                       /\ ~Unchanged(k)
                       /\ Contains(HostPart(out.list[k]), <<"-","p","r","i",".">>)
                       /\ SliceFrom(HostPart(out.list[k]),
                                    Len(HostPart(out.list[k])) - Len(port)) = port
                /\ ~Contains(member, <<":">>) => ~Contains(HostPart(out.list[k]), <<":">>)

\* direct URIs were built under an empty seed list for a member with a port
\* that the synthesis step leaves alone although it holds "-shard-"
C5_Witness ==
    /\ DirectDone /\ ~out.panicked /\ cs.Hosts = <<>>
    /\ \E k \in 1..Len(out.list) :
           /\ ~IsSynthesized(Member(k))
           /\ Contains(Member(k), <<"-","s","h","a","r","d","-">>)
           /\ Contains(Member(k), <<":">>)

(***************************************************************************)
(* C6                                                                      *)
(***************************************************************************)

\* C6: for a seed host <name>-shard-NN-NN-pri.<domain> and a member
\* <name>-shard-NN-NN.<domain>[:port], the direct URI addresses
\* <name>-shard-NN-NN-pri.<domain> followed by the member's port.
C6_PriSeedIsRestored ==
    (DirectDone /\ ~out.panicked) =>
        \A k \in 1..Len(out.list) :
            \A n \in AtlasNames, i \in AtlasIndexes, d \in AtlasDomains, p \in MemberPorts :
                ( /\ Member(k) = AtlasMember(n, i, d, p)
                  /\ \E s \in 1..Len(cs.Hosts) : cs.Hosts[s] = AtlasSeed(n, i, d) )
                => HostPart(out.list[k]) = AtlasSeed(n, i, d) \o p

(***************************************************************************)
(* C7                                                                      *)
(***************************************************************************)

\* C7: in direct-connect mode GetQueryParams returns a suffix with neither a
\* readPreference nor a readPreferenceTags parameter, whatever the
\* configuration, and so does every direct URI of GetAllServerURIs.
C7_DirectHasNoReadPreference ==
    /\ call = "GetQueryParamsDirect" =>
           /\ ~Contains(out.list[1], <<"r","e","a","d","P","r","e","f","e","r","e","n","c","e","=">>)
           /\ ~Contains(out.list[1], <<"r","e","a","d","P","r","e","f","e","r","e","n","c","e","T","a","g","s","=">>)
    /\ (DirectDone /\ ~out.panicked) =>
           \A k \in 1..Len(out.list) :
               /\ ParamValues(out.list[k], <<"r","e","a","d","P","r","e","f","e","r","e","n","c","e">>) = <<>>
               /\ ParamValues(out.list[k], <<"r","e","a","d","P","r","e","f","e","r","e","n","c","e","T","a","g","s">>) = <<>>

\* GetQueryParams was called in direct mode on a configuration with a read
\* preference and tag sets
C7_Witness ==
    /\ call = "GetQueryParamsDirect"
    /\ cs.ReadPreference # <<>>
    /\ Len(cs.ReadPreferenceTagSets) > 0
    /\ out.list[1] # <<>>

(***************************************************************************)
(* C8                                                                      *)
(***************************************************************************)

\* C8: in every discovery URI, an explicit authSource is emitted (SRV or
\* not); otherwise, for SRV input, authSource=admin and tls=true are emitted;
\* otherwise no authSource parameter is emitted.
C8_ExplicitAuthSourceFirst ==
    (DiscoveryDone /\ ~out.panicked) =>
        \A i \in 1..Len(out.list) :
            LET auth == ParamValues(out.list[i], <<"a","u","t","h","S","o","u","r","c","e">>)
                tls  == ParamValues(out.list[i], <<"t","l","s">>)
            IN  IF cs.AuthSource # <<>> THEN auth = << cs.AuthSource >>
                ELSE IF InputIsSRV
                THEN auth = << <<"a","d","m","i","n">> >> /\ Len(tls) > 0 /\ tls[1] = <<"t","r","u","e">>
                ELSE auth = <<>>

\* C8 as amended: in every discovery URI, for SRV input authSource=admin and
\* tls=true are emitted, whether or not the configuration has an explicit
\* authSource; otherwise an explicit authSource is emitted with its value;
\* otherwise no authSource parameter is emitted.
C8_SRVAuthSourceFirst ==
    (DiscoveryDone /\ ~out.panicked) =>
        \A i \in 1..Len(out.list) :
            LET auth == ParamValues(out.list[i], <<"a","u","t","h","S","o","u","r","c","e">>)
                tls  == ParamValues(out.list[i], <<"t","l","s">>)
            IN  IF InputIsSRV
                THEN auth = << <<"a","d","m","i","n">> >> /\ Len(tls) > 0 /\ tls[1] = <<"t","r","u","e">>
                ELSE IF cs.AuthSource # <<>> THEN auth = << cs.AuthSource >>
                ELSE auth = <<>>

\* a discovery URI was built for SRV input with an explicit authSource
C8_Witness ==
    /\ DiscoveryDone /\ AllWellFormed
    /\ Len(out.list) > 0
    /\ InputIsSRV
    /\ cs.AuthSource # <<>>

(***************************************************************************)
(* C9                                                                      *)
(***************************************************************************)

\* C9: when some shard's host field has the separator but no member after it
\* (every host field having the separator), GetAllShardURIs and
\* GetAllServerURIs both return a data-integrity error: no URI with an empty
\* host, the shard not dropped.
C9_NoMembersIsIntegrityError ==
    ( /\ BuilderDone
      /\ \A i \in 1..Len(shards) : HasSeparator(shards[i].Host)
      /\ \E i \in 1..Len(shards) : MemberListOf(shards[i].Host) = <<>> )
        => IntegrityError

(***************************************************************************)
(* C10                                                                     *)
(***************************************************************************)

\* the orderings of a list
Orderings(s) ==
    { [i \in 1..Len(s) |-> s[f[i]]] :
          f \in { g \in [1..Len(s) -> 1..Len(s)] :
                      \A i, j \in 1..Len(s) : i # j => g[i] # g[j] } }

\* GetAllServerURIs returns the same list for every ordering of the seeds
SameForEveryOrder ==
    \A p \in Orderings(cs.Hosts) :
        \A it \in TagIterations(cs.ReadPreferenceTagSets) :
            GetAllServerURIs(shards, [cs EXCEPT !.Hosts = p], it) = out

\* seed hosts with different hostnames derive different identifiers
SeedIdentifiersDistinct ==
    \A i, j \in 1..Len(cs.Hosts) :
        OrigHostname(cs.Hosts[i]) # OrigHostname(cs.Hosts[j])
            => OrigShardID(OrigHostname(cs.Hosts[i])) # OrigShardID(OrigHostname(cs.Hosts[j]))

\* C10: GetAllServerURIs returns the same URI list for any two
\* configurations that differ only by the order of the seed hosts.
C10_SeedOrderIndependent ==
    DirectDone => SameForEveryOrder

\* C10 as amended: GetAllServerURIs returns the same URI list for any two
\* configurations that differ only by the order of the seed hosts, provided
\* no two seed hosts with different hostnames derive the same shard-member
\* identifier (when two do, the earlier one in list order wins the scan).
C10_SeedOrderIndependentIfDistinct ==
    (DirectDone /\ SeedIdentifiersDistinct) => SameForEveryOrder

\* direct URIs were built under two seeds with different identifiers, one of
\* which replaced a member's hostname
C10_Witness ==
    /\ DirectDone /\ ~out.panicked
    /\ Len(cs.Hosts) >= 2
    /\ cs.Hosts[1] # cs.Hosts[2]
    /\ SeedIdentifiersDistinct
    /\ \E k \in 1..Len(out.list) :
           HostnameOnly(HostPart(out.list[k])) = OrigHostname(cs.Hosts[2])

(***************************************************************************)
(* C11                                                                     *)
(***************************************************************************)

\* a query parameter of the grammar: key=value with a non-empty key
IsKeyValue(p) == Index(p, <<"=">>) > 0

\* the output grammar: scheme mongodb://, and after "?" non-empty key=value
\* pairs separated by single "&" (no leading, trailing or doubled "&")
FollowsGrammar(uri) ==
    /\ HasPrefix(uri, <<"m","o","n","g","o","d","b",":","/","/">>)
    /\ Contains(uri, <<"?">>)
    /\ \A i \in 1..Len(Split(QueryOf(uri), <<"&">>)) :
           IsKeyValue(Split(QueryOf(uri), <<"&">>)[i])

\* C11: every URI returned by GetAllShardURIs or GetAllServerURIs for a
\* well-formed topology, under every configuration, follows the output
\* grammar.
C11_URIsFollowGrammar ==
    (BuilderDone /\ AllWellFormed) =>
        \A k \in 1..Len(out.list) : FollowsGrammar(out.list[k])

(***************************************************************************)
(* C12                                                                     *)
(***************************************************************************)

\* C12: for a well-formed shard list GetAllShardURIs returns one URI per
\* shard in input order, and GetAllServerURIs one URI per (shard, member)
\* pair in shard order then member order, each carrying the set name of the
\* owning shard, both with a nil error; an empty shard list gives an empty
\* list and no error.
C12_OneURIPerShardAndMember ==
    (BuilderDone /\ AllWellFormed) =>
        /\ ~out.panicked
        /\ out.err = "nil"
        /\ Len(shards) = 0 => out.list = <<>>
        /\ DiscoveryDone =>
               /\ Len(out.list) = Len(shards)
               /\ \A i \in 1..Len(shards) :
                      /\ HostPart(out.list[i]) = MemberListOf(shards[i].Host)
                      /\ ParamValues(out.list[i], <<"r","e","p","l","i","c","a","S","e","t">>)
                             = << SetNameOf(shards[i].Host) >>
        /\ DirectDone =>
               /\ Len(out.list) = Len(MemberPairs(shards))
               /\ \A k \in 1..Len(MemberPairs(shards)) :
                      /\ ParamValues(out.list[k], <<"r","e","p","l","i","c","a","S","e","t">>)
                             = << MemberPairs(shards)[k][1] >>
                      /\ NoSeedMatches => HostPart(out.list[k]) = MemberPairs(shards)[k][2]

\* direct URIs were built for two well-formed shards with different set
\* names, the first with two members, and no seed matching
C12_Witness ==
    /\ DirectDone /\ AllWellFormed
    /\ Len(shards) = 2
    /\ SetNameOf(shards[1].Host) # SetNameOf(shards[2].Host)
    /\ Len(MembersOf(shards[1].Host)) = 2
    /\ NoSeedMatches
    /\ Len(out.list) = 3

(***************************************************************************)
(* C13                                                                     *)
(***************************************************************************)

\* C13: GetQueryParams is a function of (configuration, mode): the suffix a
\* call returned is the suffix every call with the same configuration and
\* mode returns, whatever order the tag-set keys are visited in.
C13_SuffixIsDeterministic ==
    call \in {"GetQueryParamsDirect", "GetQueryParamsDiscovery"} =>
        \A it \in TagIterations(cs.ReadPreferenceTagSets) :
            GetQueryParams(cs, call = "GetQueryParamsDirect", it) = out.list[1]

(***************************************************************************)
(* C14                                                                     *)
(***************************************************************************)

\* the elements of a sequence
Range(f) == { f[i] : i \in DOMAIN f }

\* the suffix has the parameter key=true
HasTrue(suffix, key) == <<"t","r","u","e">> \in Range(ParamValues(suffix, key))

\* C14: GetQueryParams emits tls=true, tlsInsecure=true, retryReads=true and
\* retryWrites=true only when the configuration has the flag on (not when the
\* option is absent or false), and with both a numeric and a named write
\* concern set it emits the numeric w alone.
C14_FlagParamsOnlyWhenOn ==
    call \in {"GetQueryParamsDirect", "GetQueryParamsDiscovery"} =>
        /\ HasTrue(out.list[1], <<"t","l","s">>) => cs.SSL
        /\ HasTrue(out.list[1], <<"t","l","s","I","n","s","e","c","u","r","e">>) => cs.SSLInsecure
        /\ HasTrue(out.list[1], <<"r","e","t","r","y","R","e","a","d","s">>) => cs.RetryReads
        /\ HasTrue(out.list[1], <<"r","e","t","r","y","W","r","i","t","e","s">>) => cs.RetryWrites
        /\ (cs.WNumberSet /\ cs.WString # <<>>) =>
               ParamValues(out.list[1], <<"w">>) = << Itoa(cs.WNumber) >>

(***************************************************************************)
(* C16                                                                     *)
(***************************************************************************)

\* the key:value texts of the tag sets, visited in the order it
PairTexts(tagSets, it) ==
    [k \in 1..Len(TagPairs(tagSets, it)) |->
        TagPairs(tagSets, it)[k][1] \o <<":">> \o TagPairs(tagSets, it)[k][2]]

\* C16: in discovery mode with tag sets holding n >= 1 pairs the value of
\* readPreferenceTags lists the n pairs with one comma between consecutive
\* pairs and none after the last.
C16_TagsCommaSeparated ==
    (call = "GetQueryParamsDiscovery" /\ Len(cs.ReadPreferenceTagSets) > 0) =>
        \E it \in TagIterations(cs.ReadPreferenceTagSets) :
            ParamValues(out.list[1], <<"r","e","a","d","P","r","e","f","e","r","e","n","c","e","T","a","g","s">>)
                = << Join(PairTexts(cs.ReadPreferenceTagSets, it), <<",">>) >>

(***************************************************************************)
(* C15                                                                     *)
(***************************************************************************)

RECURSIVE PercentEncode(_)
\* percent-encoding: every character outside the unreserved set becomes a
\* %XX triplet
PercentEncode(s) ==
    IF Len(s) = 0 THEN <<>>
    ELSE (IF Head(s) \in Unreserved THEN <<Head(s)>> ELSE <<"%">> \o HexOf(Head(s)))
         \o PercentEncode(Tail(s))

\* the user info of a URI: between "mongodb://" and the first "@", or the
\* empty string when the URI has no "@"
UserInfoOf(uri) ==
    IF Contains(uri, <<"@">>)
    THEN SliceTo(SliceFrom(uri, Len(<<"m","o","n","g","o","d","b",":","/","/">>)), Index(uri, <<"@">>) - Len(<<"m","o","n","g","o","d","b",":","/","/">>))
    ELSE <<>>

\* C15: in both modes, with a non-empty username every URI has
\* <username>:<percent-encoded password>@ right after mongodb://, the
\* password being the one percent-decoding gives back; with an empty
\* username the URI has no "@".
C15_CredentialsPercentEncoded ==
    BuilderDone =>
        \A k \in 1..Len(out.list) :
            IF cs.Username # <<>>
            THEN /\ HasPrefix(out.list[k], <<"m","o","n","g","o","d","b",":","/","/">>)
                 /\ UserInfoOf(out.list[k])
                        = cs.Username \o <<":">> \o PercentEncode(cs.Password)
            ELSE ~Contains(out.list[k], <<"@">>)

(***************************************************************************)
(* C17                                                                     *)
(***************************************************************************)

\* C17: direct-mode reconciliation never merges members: two members the
\* topology reports as different strings get URIs with different host parts.
C17_MembersStayDistinct ==
    (DirectDone /\ AllWellFormed) =>
        \A j, k \in 1..Len(out.list) :
            MemberPairs(shards)[j][2] # MemberPairs(shards)[k][2]
                => HostPart(out.list[j]) # HostPart(out.list[k])

====
